---- MODULE Spec2Model ----
(***************************************************************************)
(* A state-machine model of the three RAG-agent programs of the repository *)
(* (the script copy, the basic notebook and the reasoning notebook): the   *)
(* tip files written to rag_docs, the documents loaded and embedded, the   *)
(* weather tool get_weather, and the final question-answering call.        *)
(***************************************************************************)
EXTENDS Integers, Sequences, FiniteSets, TLC

VARIABLES
    variant,        \* which program runs: "script", "basic" or "reasoning"
    pc,             \* the statement the run is about to execute
    runs,           \* how many times the program has been started
    dirExists,      \* does the directory rag_docs exist
    fs,             \* rag_docs: file name -> file text
    fs0,            \* the contents of rag_docs before the first run
    writes,         \* how many times the file-writing loop has completed
    all_docs,       \* the documents loaded from rag_docs
    splits,         \* the chunks produced by the splitter
    vectordb,       \* ./chroma_db: chunk -> number of stored copies
    response,       \* reasoning variant: what llm.invoke(question) returned
    requests,       \* the HTTP requests issued in this run
    http_status,    \* status code of the last HTTP response
    http_body,      \* body of the last HTTP response
    parsed,         \* how many times response.json() was called in this run
    weather,        \* what get_weather returned
    weather_text,   \* the formatted weather sentence (a list of its parts)
    query,          \* the query given to qa.run (a list of its parts)
    final_answer,   \* what qa.run returned
    output,         \* what was printed
    calls           \* the external calls of this run, in order

vars == <<variant, pc, runs, dirExists, fs, fs0, writes, all_docs, splits,
          vectordb, response, requests, http_status, http_body, parsed,
          weather, weather_text, query, final_answer, output, calls>>

(***************************************************************************)
(* Bounds                                                                  *)
(***************************************************************************)
MaxRuns == 2

(***************************************************************************)
(* Python / JSON values                                                    *)
(***************************************************************************)
Num(n) == [t |-> "num", v |-> n]
Str(s) == [t |-> "str", v |-> s]
None == [t |-> "none"]
Dict(m) == [t |-> "dict", v |-> m]
List == [t |-> "list"]
InvalidJson == [t |-> "invalid"]
EmptyMap == [k \in {} |-> None]
NoValue == [t |-> "unset"]

IsDict(x) == x.t = "dict"

\* dict.get(key, default)
DictGet(d, key, default) ==
    IF key \in DOMAIN d.v THEN d.v[key] ELSE default

\* str(value), as an f-string formats it
PyStr(x) ==
    CASE x.t = "num" -> ToString(x.v)
      [] x.t = "str" -> x.v
      [] x.t = "none" -> "None"

(***************************************************************************)
(* Step 2: the tip documents                                               *)
(***************************************************************************)
rag_docs == << "In Paris, it's best to carry an umbrella in spring.",
               "Always check the local metro schedule to avoid delays.",
               "Wear comfortable walking shoes when visiting tourist spots in Paris." >>

\* f"doc_{i}.txt" for the 0-based index i of enumerate
DocFile(i) == "doc_" \o ToString(i) \o ".txt"

TipFiles == { DocFile(i - 1) : i \in 1..Len(rag_docs) }
OtherFiles == { "notes.txt" }
FileNames == TipFiles \cup OtherFiles
StaleText == "Stale text from an earlier session."

\* faulty variant: the file opened in mode "a", the text added at its end
WriteFileAppend(dir, name, text) ==
    [f \in DOMAIN dir \cup {name} |->
        IF f = name
        THEN (IF name \in DOMAIN dir THEN dir[name] \o text ELSE text)
        ELSE dir[f]]

\* open(name, "w") followed by f.write(text): the file is truncated first
WriteFile(dir, name, text) ==
    [f \in DOMAIN dir \cup {name} |-> IF f = name THEN text ELSE dir[f]]

\* for i, text in enumerate(rag_docs): write rag_docs/doc_{i}.txt
RECURSIVE WriteTips(_, _)
WriteTips(dir, n) ==
    IF n = 0 THEN dir
    ELSE WriteFile(WriteTips(dir, n - 1), DocFile(n - 1), rag_docs[n])

\* TextLoader(path).load(): one document holding the file's text
Document(dir, file) ==
    [page_content |-> dir[file], source |-> "rag_docs/" \o file]

\* os.listdir returns the directory's entries in arbitrary order
Listings(dir) ==
    { s \in [1..Cardinality(DOMAIN dir) -> DOMAIN dir] :
        \A i, j \in DOMAIN s : i # j => s[i] # s[j] }

LoadAll(dir, listing) ==
    [i \in DOMAIN listing |-> Document(dir, listing[i])]

\* CharacterTextSplitter splits on the separator "\n\n"; a text without the
\* separator is a single piece and is emitted as one chunk (the texts of
\* this model hold no blank line), keeping the document's metadata.
split_documents(docs) ==
    [i \in DOMAIN docs |->
        [page_content |-> docs[i].page_content, source |-> docs[i].source]]

\* Chroma.from_documents(...) adds the chunks to the persisted collection
AddChunks(db, chunks) ==
    [c \in DOMAIN db \cup { chunks[i] : i \in DOMAIN chunks } |->
        (IF c \in DOMAIN db THEN db[c] ELSE 0)
        + Cardinality({ i \in DOMAIN chunks : chunks[i] = c })]

(***************************************************************************)
(* Step 3: the weather tool                                                *)
(***************************************************************************)
\* coordinates are kept as integers, in units of 1/10000 degree
ParisLat == 488566
ParisLon == 23522
\* another city's coordinates, for arguments that are not Paris
TokyoCoords == << 356762, 1396503 >>

Endpoint == "https://api.open-meteo.com/v1/forecast"

WeatherRequest(lat, lon) ==
    [method |-> "GET",
     url |-> Endpoint,
     params |-> [latitude |-> lat,
                 longitude |-> lon,
                 current |-> "temperature_2m,wind_speed_10m",
                 temperature_unit |-> "celsius",
                 windspeed_unit |-> "kmh"]]

Cities == { "Paris", "Tokyo", "" }

\* faulty variant: the coordinates looked up from the city argument
CityRequestByCity(city) ==
    IF city = "Tokyo"
    THEN WeatherRequest(TokyoCoords[1], TokyoCoords[2])
    ELSE WeatherRequest(ParisLat, ParisLon)

\* get_weather(city): the request of the script and the basic notebook; the
\* coordinates are literals, the argument is not read
CityRequest(city) == WeatherRequest(ParisLat, ParisLon)

\* get_weather(lat, lon): the request of the reasoning notebook
LatLonRequest(lat, lon) == WeatherRequest(lat, lon)

ErrorMessage(v) ==
    IF v = "reasoning" THEN "API failed." ELSE "Failed to fetch weather data."

ErrorMarker(v) == Dict([error |-> Str(ErrorMessage(v))])

\* faulty variant: only 4xx and 5xx taken as failures
FailedOnlyClientServerError(status) == status >= 400

\* if response.status_code != 200: the request failed
Failed(status) == status # 200

\* is response.json() called for this status
Parses(status) == ~Failed(status)

\* response.json() raises on a body that is not JSON; .get raises on a
\* parsed body that is not an object
Raises(status, body) ==
    Parses(status) /\ ~IsDict(body)

\* faulty variant: the parsed body returned whole
ReturnValueWholeBody(v, status, body) ==
    IF Failed(status) THEN ErrorMarker(v) ELSE body

\* the value get_weather returns when it does not raise
ReturnValue(v, status, body) ==
    IF Failed(status) THEN ErrorMarker(v)
    ELSE DictGet(body, "current", Dict(EmptyMap))

StatusCodes == { 200, 201, 404, 500 }

CurrentFull == Dict([temperature_2m |-> Num(18), wind_speed_10m |-> Num(12)])
CurrentPartial == Dict([wind_speed_10m |-> Num(7)])

Bodies ==
    { InvalidJson,
      List,
      Dict(EmptyMap),
      Dict([current |-> CurrentFull, latitude |-> Num(ParisLat)]),
      Dict([current |-> CurrentPartial]),
      Dict([current |-> Dict(EmptyMap)]),
      Dict([current |-> None]),
      Dict([error |-> Str("true"), reason |-> Str("Bad request")]) }

(***************************************************************************)
(* Step 4: the weather sentence and the query                              *)
(***************************************************************************)
Temperature(w) == PyStr(DictGet(w, "temperature_2m", Str("?")))
WindSpeed(w) == PyStr(DictGet(w, "wind_speed_10m", Str("?")))

\* faulty variant: the error message shown in place of the missing values
WeatherTextShowsError(v, w) ==
    LET shown(k) == IF "error" \in DOMAIN w.v
                    THEN PyStr(w.v["error"])
                    ELSE PyStr(DictGet(w, k, Str("?")))
    IN IF v = "reasoning"
       THEN << "Temperature: ", shown("temperature_2m"), "°C, Wind: ",
               shown("wind_speed_10m"), " km/h." >>
       ELSE << "The current temperature in Paris is ", shown("temperature_2m"),
               "°C ", "with wind speed ", shown("wind_speed_10m"), " km/h." >>

\* weather_text, as the list of the f-string's literal and formatted parts
WeatherText(v, w) ==
    IF v = "reasoning"
    THEN << "Temperature: ", Temperature(w), "°C, Wind: ", WindSpeed(w), " km/h." >>
    ELSE << "The current temperature in Paris is ", Temperature(w), "°C ",
            "with wind speed ", WindSpeed(w), " km/h." >>

\* query, as the list of its parts, the weather text among them
Query(v, text) ==
    IF v = "reasoning"
    THEN << "The weather in Paris today is: " >> \o text
         \o << ".\n", "Based on this and local travel tips, what should a traveler know?" >>
    ELSE << "Given this weather: " >> \o text
         \o << ", what travel tips do you have for Paris?" >>

\* what the language model may return
LLMTexts == { "No tool is needed.", "Call the weather tool for Tokyo." }
LLMAnswers == { "Carry an umbrella.", "Wear walking shoes." }

(***************************************************************************)
(* Control flow                                                            *)
(***************************************************************************)
Variants == { "script", "basic", "reasoning" }

\* faulty variant: the reasoning call moved after the weather cell
StepsReasonLast(v) ==
    IF v = "reasoning"
    THEN << "write", "load", "embed", "weather", "format", "reason", "qa", "done" >>
    ELSE << "write", "load", "embed", "weather", "format", "qa", "done" >>

\* the statements of a program, in execution order
Steps(v) ==
    IF v = "reasoning"
    THEN << "write", "load", "embed", "reason", "weather", "format", "qa", "done" >>
    ELSE << "write", "load", "embed", "weather", "format", "qa", "done" >>

NextPc(v, p) ==
    LET s == Steps(v)
        i == CHOOSE k \in DOMAIN s : s[k] = p
    IN s[i + 1]

InitialDirs ==
    UNION { [S -> { StaleText }] : S \in SUBSET FileNames }

RunLocalInit ==
    /\ pc = "write"
    /\ all_docs = << >>
    /\ splits = << >>
    /\ response = ""
    /\ requests = << >>
    /\ http_status = 0
    /\ http_body = NoValue
    /\ parsed = 0
    /\ weather = NoValue
    /\ weather_text = << >>
    /\ query = << >>
    /\ final_answer = ""
    /\ output = << >>
    /\ calls = << >>

Init ==
    /\ variant \in Variants
    /\ runs = 1
    /\ dirExists \in BOOLEAN
    /\ fs \in (IF dirExists THEN InitialDirs ELSE { EmptyMap })
    /\ fs0 = fs
    /\ writes = 0
    /\ vectordb = EmptyMap
    /\ RunLocalInit

\* faulty variant: the coordinates taken from the model's initial response
ToolCoordsFromResponse ==
    IF response = "Call the weather tool for Tokyo."
    THEN TokyoCoords
    ELSE << ParisLat, ParisLon >>

\* lat, lon = 48.8566, 2.3522 in the reasoning notebook's tool cell
ToolCoords == << ParisLat, ParisLon >>

\* the request the program's call of get_weather issues
ProgramRequest ==
    IF variant = "reasoning"
    THEN LatLonRequest(ToolCoords[1], ToolCoords[2])
    ELSE CityRequest("Paris")

\* os.makedirs("rag_docs", exist_ok=True) and the file-writing loop
WriteTipFiles ==
    /\ pc = "write"
    /\ dirExists' = TRUE
    /\ fs' = WriteTips(fs, Len(rag_docs))
    /\ writes' = writes + 1
    /\ pc' = NextPc(variant, pc)
    /\ UNCHANGED <<variant, runs, fs0, all_docs, splits, vectordb, response,
                   requests, http_status, http_body, parsed, weather,
                   weather_text, query, final_answer, output, calls>>

\* all_docs = []; for file in os.listdir("rag_docs"): ...; split_documents
LoadDocs ==
    /\ pc = "load"
    /\ \E listing \in Listings(fs) :
          /\ all_docs' = LoadAll(fs, listing)
          /\ splits' = split_documents(LoadAll(fs, listing))
    /\ pc' = NextPc(variant, pc)
    /\ UNCHANGED <<variant, runs, dirExists, fs, fs0, writes, vectordb,
                   response, requests, http_status, http_body, parsed, weather,
                   weather_text, query, final_answer, output, calls>>

\* Chroma.from_documents(splits, embedding, ...); vectordb.persist()
EmbedStore ==
    /\ pc = "embed"
    /\ vectordb' = AddChunks(vectordb, splits)
    /\ calls' = Append(calls, "embed_store")
    /\ pc' = NextPc(variant, pc)
    /\ UNCHANGED <<variant, runs, dirExists, fs, fs0, writes, all_docs, splits,
                   response, requests, http_status, http_body, parsed, weather,
                   weather_text, query, final_answer, output>>

\* response = llm.invoke(question); print(response)   (reasoning notebook)
Reason ==
    /\ pc = "reason"
    /\ \E r \in LLMTexts :
          /\ response' = r
          /\ output' = output \o << "LLM Initial Reasoning:", r >>
    /\ calls' = Append(calls, "llm_invoke")
    /\ pc' = NextPc(variant, pc)
    /\ UNCHANGED <<variant, runs, dirExists, fs, fs0, writes, all_docs, splits,
                   vectordb, requests, http_status, http_body, parsed, weather,
                   weather_text, query, final_answer>>

\* faulty variant: a failed request is tried once more
CallWeatherRetry ==
    /\ pc = "weather"
    /\ requests' = Append(requests, ProgramRequest)
    /\ calls' = Append(calls, "http_get")
    /\ \E status \in StatusCodes, body \in Bodies :
          /\ http_status' = status
          /\ http_body' = body
          /\ parsed' = parsed + (IF Parses(status) THEN 1 ELSE 0)
          /\ IF Raises(status, body)
             THEN /\ pc' = "crashed"
                  /\ UNCHANGED weather
             ELSE /\ pc' = IF Failed(status) /\ Len(requests) < 1
                           THEN pc ELSE NextPc(variant, pc)
                  /\ weather' = ReturnValue(variant, status, body)
    /\ UNCHANGED <<variant, runs, dirExists, fs, fs0, writes, all_docs, splits,
                   vectordb, response, weather_text, query, final_answer,
                   output>>

\* weather = get_weather(...): one requests.get, the status check, the parse
CallWeather ==
    /\ pc = "weather"
    /\ requests' = Append(requests, ProgramRequest)
    /\ calls' = Append(calls, "http_get")
    /\ \E status \in StatusCodes, body \in Bodies :
          /\ http_status' = status
          /\ http_body' = body
          /\ parsed' = parsed + (IF Parses(status) THEN 1 ELSE 0)
          /\ IF Raises(status, body)
             THEN /\ pc' = "crashed"
                  /\ UNCHANGED weather
             ELSE /\ pc' = NextPc(variant, pc)
                  /\ weather' = ReturnValue(variant, status, body)
    /\ UNCHANGED <<variant, runs, dirExists, fs, fs0, writes, all_docs, splits,
                   vectordb, response, weather_text, query, final_answer,
                   output>>

\* weather_text = f"... {weather.get('temperature_2m', '?')} ..."; the
\* reasoning notebook also prints it.  weather.get raises when weather is
\* not a dict.
FormatWeather ==
    /\ pc = "format"
    /\ IF IsDict(weather)
       THEN /\ weather_text' = WeatherText(variant, weather)
            /\ output' = IF variant = "reasoning"
                         THEN output \o << "Simulated Weather Tool Output:" >>
                                     \o WeatherText(variant, weather)
                         ELSE output
            /\ pc' = NextPc(variant, pc)
       ELSE /\ pc' = "crashed"
            /\ UNCHANGED <<weather_text, output>>
    /\ UNCHANGED <<variant, runs, dirExists, fs, fs0, writes, all_docs, splits,
                   vectordb, response, requests, http_status, http_body,
                   parsed, weather, query, final_answer, calls>>

\* query = f"..."; final = qa.run(query); print(final)
RunQA ==
    /\ pc = "qa"
    /\ query' = Query(variant, weather_text)
    /\ calls' = Append(calls, "qa_run")
    /\ \E a \in LLMAnswers :
          /\ final_answer' = a
          /\ output' = output \o << "AI Agent Response:", a >>
    /\ pc' = NextPc(variant, pc)
    /\ UNCHANGED <<variant, runs, dirExists, fs, fs0, writes, all_docs, splits,
                   vectordb, response, requests, http_status, http_body,
                   parsed, weather, weather_text>>

\* the program is started again in the same working directory
Rerun ==
    /\ pc \in { "done", "crashed" }
    /\ runs < MaxRuns
    /\ runs' = runs + 1
    /\ pc' = "write"
    /\ all_docs' = << >>
    /\ splits' = << >>
    /\ response' = ""
    /\ requests' = << >>
    /\ http_status' = 0
    /\ http_body' = NoValue
    /\ parsed' = 0
    /\ weather' = NoValue
    /\ weather_text' = << >>
    /\ query' = << >>
    /\ final_answer' = ""
    /\ output' = << >>
    /\ calls' = << >>
    /\ UNCHANGED <<variant, dirExists, fs, fs0, writes, vectordb>>

Next ==
    \/ WriteTipFiles
    \/ LoadDocs
    \/ EmbedStore
    \/ Reason
    \/ CallWeather
    \/ FormatWeather
    \/ RunQA
    \/ Rerun

Spec == Init /\ [][Next]_vars

(***************************************************************************)
(* Properties                                                              *)
(***************************************************************************)
Called == Len(requests) > 0

Count(seq, x) == Cardinality({ i \in DOMAIN seq : seq[i] = x })

Prefix(s, t) == Len(s) <= Len(t) /\ \A i \in DOMAIN s : s[i] = t[i]

\* C1: when the HTTP response of get_weather has a status other than 200,
\* the function returns a dict whose only key is "error" (so neither
\* temperature_2m nor wind_speed_10m is in it) and response.json() is never
\* called, in all three programs.
C1_ErrorMarkerOnFailure ==
    (Called /\ http_status # 200) =>
        /\ pc # "crashed"
        /\ weather.t = "dict"
        /\ DOMAIN weather.v = { "error" }
        /\ "temperature_2m" \notin DOMAIN weather.v
        /\ "wind_speed_10m" \notin DOMAIN weather.v
        /\ parsed = 0

C1_Witness ==
    /\ variant = "reasoning"
    /\ Called
    /\ http_status = 500
    /\ http_body = Dict([current |-> CurrentFull, latitude |-> Num(ParisLat)])
    /\ weather = Dict([error |-> Str("API failed.")])

\* C2: when the response has status 200 and a JSON-object body, get_weather
\* returns exactly the value under the body's key "current", and the empty
\* dict when the body has no such key.
C2_ReturnsCurrent ==
    (Called /\ http_status = 200 /\ http_body.t = "dict") =>
        weather = IF "current" \in DOMAIN http_body.v
                  THEN http_body.v["current"]
                  ELSE [t |-> "dict", v |-> EmptyMap]

C2_Witness ==
    /\ Called
    /\ http_status = 200
    /\ http_body = Dict([current |-> CurrentFull, latitude |-> Num(ParisLat)])
    /\ weather = CurrentFull

\* C3: every HTTP request issued is a GET to the fixed forecast endpoint with
\* current=temperature_2m,wind_speed_10m, celsius and kmh; the city variant
\* of get_weather asks for 48.8566 / 2.3522 whatever the city argument is.
C3_FixedRequest ==
    /\ \A i \in DOMAIN requests :
          /\ requests[i].method = "GET"
          /\ requests[i].url = "https://api.open-meteo.com/v1/forecast"
          /\ requests[i].params.current = "temperature_2m,wind_speed_10m"
          /\ requests[i].params.temperature_unit = "celsius"
          /\ requests[i].params.windspeed_unit = "kmh"
          /\ DOMAIN requests[i].params =
                { "latitude", "longitude", "current", "temperature_unit",
                  "windspeed_unit" }
          /\ variant # "reasoning" =>
                /\ requests[i].params.latitude = 488566
                /\ requests[i].params.longitude = 23522
    /\ \A city \in Cities :
          /\ CityRequest(city).params.latitude = 488566
          /\ CityRequest(city).params.longitude = 23522
          /\ CityRequest(city) = CityRequest("Paris")

C3_Witness ==
    /\ variant = "script"
    /\ Len(requests) = 1
    /\ pc = "done"

\* C4: there are no retries: a run never issues a second HTTP GET, and a
\* complete run has issued exactly one, whatever its status was.
C4_NoRetry ==
    /\ Len(requests) <= 1
    /\ Count(calls, "http_get") = Len(requests)
    /\ pc = "done" => Len(requests) = 1

C4_Witness ==
    /\ pc = "done"
    /\ http_status = 500
    /\ Len(requests) = 1

\* C5 as stated: every complete run of every program makes exactly the three
\* external calls embed+store, weather fetch, prompt+generate, in this order.
C5_ThreeCalls ==
    pc = "done" => calls = << "embed_store", "http_get", "qa_run" >>

\* C5: the script and the basic notebook make exactly the three calls
\* embed+store, weather fetch, qa.run in this order; the reasoning notebook
\* makes four, with llm.invoke between embed+store and the weather fetch; a
\* run that an exception ends early has made a prefix of them.
ExpectedCalls ==
    IF variant = "reasoning"
    THEN << "embed_store", "llm_invoke", "http_get", "qa_run" >>
    ELSE << "embed_store", "http_get", "qa_run" >>

C5_CallOrder ==
    /\ Prefix(calls, ExpectedCalls)
    /\ pc = "done" => calls = ExpectedCalls

C5_Witness ==
    /\ pc = "done"
    /\ variant = "reasoning"
    /\ calls = << "embed_store", "llm_invoke", "http_get", "qa_run" >>

C7_ToolIsOptional ==
    (variant = "reasoning" /\ response = "No tool is needed.") =>
        Len(requests) = 0

\* C8: for any initial contents of rag_docs, the documents loaded (and the
\* chunks embedded) are exactly the three tips, each once.
C8_OnlyTipsLoaded ==
    pc \notin { "write", "load" } =>
        /\ \A i \in DOMAIN all_docs :
              \E k \in DOMAIN rag_docs : all_docs[i].page_content = rag_docs[k]
        /\ \A k \in DOMAIN rag_docs :
              Cardinality({ i \in DOMAIN all_docs :
                              all_docs[i].page_content = rag_docs[k] }) = 1
        /\ \A i \in DOMAIN splits :
              \E k \in DOMAIN rag_docs : splits[i].page_content = rag_docs[k]

\* C9: when get_weather returned the error marker, the run goes on: the
\* weather text holds '?' for the temperature and for the wind speed, qa.run
\* is called exactly once with a query that contains this text and not the
\* error message, and its answer is printed.
PlaceholderText ==
    IF variant = "reasoning"
    THEN << "Temperature: ", "?", "°C, Wind: ", "?", " km/h." >>
    ELSE << "The current temperature in Paris is ", "?", "°C ",
            "with wind speed ", "?", " km/h." >>

C9_FailureDoesNotStop ==
    (Called /\ weather.t = "dict" /\ DOMAIN weather.v = { "error" }) =>
        /\ pc \in { "format", "qa", "done" }
        /\ pc \in { "qa", "done" } => weather_text = PlaceholderText
        /\ pc = "done" =>
              /\ Count(calls, "qa_run") = 1
              /\ SubSeq(query, 2, 1 + Len(PlaceholderText)) = PlaceholderText
              /\ Count(query, "API failed.") = 0
              /\ Count(query, "Failed to fetch weather data.") = 0
              /\ output[Len(output)] = final_answer
              /\ final_answer \in LLMAnswers

C9_Witness ==
    /\ pc = "done"
    /\ http_status = 404
    /\ weather = Dict([error |-> Str("Failed to fetch weather data.")])
    /\ Count(query, "?") = 2

\* C10: writing the tip files is idempotent: however often the writing loop
\* has run (once or more), doc_0.txt, doc_1.txt and doc_2.txt hold exactly
\* the three tips in list order, and every other file of rag_docs is as it
\* was before the first run.
C10_WriteIdempotent ==
    writes >= 1 =>
        /\ dirExists
        /\ DOMAIN fs = DOMAIN fs0 \cup { "doc_0.txt", "doc_1.txt", "doc_2.txt" }
        /\ fs["doc_0.txt"] = "In Paris, it's best to carry an umbrella in spring."
        /\ fs["doc_1.txt"] = "Always check the local metro schedule to avoid delays."
        /\ fs["doc_2.txt"] =
              "Wear comfortable walking shoes when visiting tourist spots in Paris."
        /\ \A f \in DOMAIN fs0 \ { "doc_0.txt", "doc_1.txt", "doc_2.txt" } :
              fs[f] = fs0[f]

C10_Witness ==
    /\ writes = 2
    /\ "doc_0.txt" \in DOMAIN fs0
    /\ "notes.txt" \in DOMAIN fs0
    /\ pc = "load"

====
